---------------------------- MODULE Spec2Model ----------------------------
(***************************************************************************)
(* Model of src/server.js: the html-to-image server.                       *)
(*                                                                         *)
(* Node runs the program on one thread.  An action of this model is one    *)
(* run-to-completion turn of the event loop: the synchronous code of a     *)
(* callback together with every promise continuation (microtask) that is   *)
(* ready without further I/O.  A turn ends where the code awaits real I/O  *)
(* (puppeteer.launch, newPage, setViewport, setContent, screenshot,        *)
(* page.close, browser.close); the settling of that I/O starts the next    *)
(* turn of the same handler.                                               *)
(***************************************************************************)
EXTENDS Integers, Sequences, FiniteSets, TLC

(***************************************************************************)
(* Bounds of the model.                                                    *)
(***************************************************************************)
MaxReq == 3         \* requests received over the life of the process
MaxEvents == 4      \* external events in a run: requests, clock ticks, timer
                    \* firings of cleanupCache, /cache-clear calls, signals
MaxBuffers == 2     \* distinct byte contents page.screenshot may produce

(***************************************************************************)
(* Program constants.  MAX_CONCURRENT and CACHE_TTL are read from the      *)
(* environment (server.js:10-11); the values here are one configuration,   *)
(* CACHE_TTL counted in ticks of the model's clock.                        *)
(***************************************************************************)
MAX_CONCURRENT == 2
CACHE_TTL == 1
HTML_LIMIT == 10 * 1024 * 1024

VARIABLES
    now,              \* Date.now()
    imageCache,       \* server.js:14
    activeRequests,   \* server.js:15
    browser,          \* server.js:22: NoBrowser or the id of a launched browser
    launched,         \* number of browsers puppeteer.launch has started so far
    alive,            \* ids of the browsers launched and not closed
    launchPc,         \* per caller of initBrowser: "none", "launch1", "launch2"
    req,              \* per request: where its handler is, and its response
    shutdown,         \* "none", "closing", "browserClose", "browserCloseHangs",
                      \* "exited", "crashed"
    clearedEntries,   \* the clearedEntries field of the last /cache-clear response
    events,           \* number of external events so far
    keyArgs,          \* inputs of the two calls of generateCacheKey under KeySpec
    keys              \* << >>, or the keys the two calls returned

vars == << now, imageCache, activeRequests, browser, launched, alive, launchPc,
           req, shutdown, clearedEntries, events, keyArgs, keys >>

keyVars == << keyArgs, keys >>

serverVars == << now, imageCache, activeRequests, browser, launched, alive, launchPc,
                req, shutdown, clearedEntries, events >>

Requests == 1..MaxReq
PREWARM == 0                      \* the app.listen callback as caller of initBrowser
Callers == {PREWARM} \cup Requests
Buffers == 1..MaxBuffers
NoBrowser == 0                    \* browser = null
NoBuffer == 0

HTML_TO_IMAGE == "/html-to-image"
TEST_IMAGE == "/test-image"

(***************************************************************************)
(* Request bodies.  An html value is [text, length]: text stands for the   *)
(* characters, length is html.length (the oversized body is not written    *)
(* out).  An options object is the sequence of its <<field, value>>        *)
(* members in insertion order, which is the order JSON.stringify emits.    *)
(***************************************************************************)
NoHtml == [text |-> "", length |-> 0]
SmallHtml == [text |-> "<h1>x</h1>", length |-> 10]
BigHtml == [text |-> "<big>", length |-> HTML_LIMIT + 1]

NoOptions == << >>
OptsWH == << <<"width", 800>>, <<"height", 600>> >>

Bodies ==
    { [html |-> NoHtml, options |-> NoOptions],
      [html |-> BigHtml, options |-> NoOptions],
      [html |-> SmallHtml, options |-> OptsWH] }

testHtml(t) == [text |-> "<test-image " \o ToString(t) \o ">", length |-> 16]

(***************************************************************************)
(* generateCacheKey (server.js:129-132).                                   *)
(***************************************************************************)
RECURSIVE Members(_)
Members(o) ==
    IF o = << >> THEN ""
    ELSE "\"" \o o[1][1] \o "\":" \o ToString(o[1][2])
         \o (IF Len(o) > 1 THEN "," ELSE "") \o Members(Tail(o))

JSONstringify(options) == "{" \o Members(options) \o "}"

\* The hex digest of content; MD5 is taken to be collision-free on the
\* contents of the model, so the digest is written as the tagged content.
md5hex(content) == "md5:" \o content

generateCacheKey(html, options) == md5hex(html.text \o JSONstringify(options))

(***************************************************************************)
(* The image cache: a Map from cache key to {buffer, timestamp}.           *)
(***************************************************************************)
EmptyCache == [k \in {} |-> [buffer |-> NoBuffer, timestamp |-> 0]]

CacheDelete(cache, key) == [k \in DOMAIN cache \ {key} |-> cache[k]]

\* variant of the store: an entry already there gets the new bytes only
CacheSet_Torn(cache, key, entry) ==
    [k \in DOMAIN cache \cup {key} |->
        IF k # key THEN cache[k]
        ELSE IF key \in DOMAIN cache
             THEN [buffer |-> entry.buffer, timestamp |-> cache[key].timestamp]
             ELSE entry]

CacheSet(cache, key, entry) ==
    [k \in DOMAIN cache \cup {key} |-> IF k = key THEN entry ELSE cache[k]]

\* variants of the freshness test: the TTL test left out, the comparison turned
IsFresh_NoExpiry(cached, t) == TRUE

IsFresh_Inverted(cached, t) == t - cached.timestamp > CACHE_TTL

\* server.js:154
IsFresh(cached, t) == t - cached.timestamp < CACHE_TTL

\* server.js:137
IsStale(data, t) == t - data.timestamp > CACHE_TTL

\* server.js:136-140
Swept(cache, t) == [k \in {x \in DOMAIN cache : ~IsStale(cache[x], t)} |-> cache[k]]

\* variant of the clear: only the stale entries go, as in cleanupCache
ClearAll_OnlyStale(cache) == Swept(cache, now)

\* server.js:239
ClearAll(cache) == EmptyCache

\* variant of the release: the decrement left out
Release_Forgotten(n) == n

\* server.js:324, 424
Release(n) == IF n - 1 > 0 THEN n - 1 ELSE 0

\* server.js:249, 330
Enter(n) == n + 1

\* server.js:41
Throttled(n, path) == n >= MAX_CONCURRENT /\ path = HTML_TO_IMAGE

IdleRequest ==
    [ pc |-> "idle", path |-> "", html |-> NoHtml, options |-> NoOptions,
      cacheKey |-> "", lookup |-> "none",
      page |-> "none", failed |-> FALSE, buffer |-> NoBuffer, ts |-> -1,
      status |-> 0, xcache |-> "" ]

ServerInit ==
    /\ now = 0
    /\ imageCache = EmptyCache
    /\ activeRequests = 0
    /\ browser = NoBrowser
    /\ launched = 0
    /\ alive = {}
    \* the listen callback has run up to its await of initBrowser(), which
    \* found no browser and called puppeteer.launch
    /\ launchPc = [c \in Callers |-> IF c = PREWARM THEN "launch1" ELSE "none"]
    /\ req = [r \in Requests |-> IdleRequest]
    /\ shutdown = "none"
    /\ clearedEntries = 0
    /\ events = 0

Init ==
    /\ ServerInit
    /\ keyArgs = [html |-> NoHtml, a |-> NoOptions, b |-> NoOptions]
    /\ keys = << >>

Running == shutdown \notin {"exited", "crashed"}
Listening == shutdown = "none"
InHandler(r) == req[r].pc \notin {"idle", "done"}


\* requests are numbered in the order they arrive
NextToArrive(r) ==
    req[r].pc = "idle" /\ (IF r = 1 THEN TRUE ELSE req[r - 1].pc # "idle")

Falsy(html) == html.text = ""

\* server.js:298-301: the header is computed from the cache as it is when
\* the response is written; /test-image sets no such header
XCacheStatus(rec, cache) ==
    IF rec.path # HTML_TO_IMAGE THEN ""
    ELSE IF rec.cacheKey \in DOMAIN cache THEN "HIT" ELSE "MISS"

\* res.send(imageBuffer) (server.js:279-303, 400-410)
Respond200(rec, cache) ==
    [rec EXCEPT !.pc = "done", !.status = 200, !.xcache = XCacheStatus(rec, cache)]

\* a response without image bytes: 400, 413, 429, or the catch block's 500;
\* of the request it answers the record keeps the body and the page
RespondError(rec, code) ==
    [IdleRequest EXCEPT !.pc = "done", !.path = rec.path, !.html = rec.html,
                        !.options = rec.options, !.page = rec.page,
                        !.failed = rec.failed, !.status = code]

(***************************************************************************)
(* generateImageOptimized from its entry to its first await of real I/O    *)
(* (server.js:147-166): the cache lookup, and on a miss the call of        *)
(* initBrowser, which either finds a browser (and newPage is called in the *)
(* following microtask) or calls puppeteer.launch.  On a hit the handler   *)
(* resumes in a microtask and answers in the same turn, so its increment   *)
(* and decrement of activeRequests both happen here.                       *)
(***************************************************************************)
BeginGenerate(r, rec) ==
    LET cacheKey == generateCacheKey(rec.html, rec.options)
        has == cacheKey \in DOMAIN imageCache
        hit == has /\ IsFresh(imageCache[cacheKey], now)
        looked == [rec EXCEPT !.cacheKey = cacheKey,
                              !.lookup = IF hit THEN "hit"
                                         ELSE IF has THEN "expired" ELSE "miss"]
    IN  IF hit
        THEN /\ req' = [req EXCEPT ![r] =
                    Respond200([looked EXCEPT !.buffer = imageCache[cacheKey].buffer,
                                              !.ts = imageCache[cacheKey].timestamp],
                               imageCache)]
             /\ activeRequests' = Release(Enter(activeRequests))
             /\ UNCHANGED << imageCache, launchPc >>
        ELSE /\ imageCache' = IF has THEN CacheDelete(imageCache, cacheKey)
                              ELSE imageCache
             /\ activeRequests' = Enter(activeRequests)
             /\ IF browser = NoBrowser
                THEN /\ launchPc' = [launchPc EXCEPT ![r] = "launch1"]
                     /\ req' = [req EXCEPT ![r] = [looked EXCEPT !.pc = "initBrowser"]]
                ELSE /\ req' = [req EXCEPT ![r] = [looked EXCEPT !.pc = "newPage"]]
                     /\ UNCHANGED launchPc

(***************************************************************************)
(* POST /html-to-image: the throttling middleware (server.js:40-49), then  *)
(* the handler (server.js:247-326) up to its first await of real I/O.      *)
(***************************************************************************)
PostHtmlToImage(r, body) ==
    /\ Running /\ Listening /\ NextToArrive(r)
    /\ events < MaxEvents
    /\ LET rec == [IdleRequest EXCEPT !.path = HTML_TO_IMAGE, !.html = body.html,
                                      !.options = body.options]
       IN  IF Throttled(activeRequests, HTML_TO_IMAGE)
           THEN /\ req' = [req EXCEPT ![r] = RespondError(rec, 429)]
                /\ UNCHANGED << imageCache, activeRequests, launchPc >>
           ELSE IF Falsy(rec.html)
           THEN /\ req' = [req EXCEPT ![r] = RespondError(rec, 400)]
                /\ activeRequests' = Release(Enter(activeRequests))
                /\ UNCHANGED << imageCache, launchPc >>
           ELSE IF rec.html.length > HTML_LIMIT
           THEN /\ req' = [req EXCEPT ![r] = RespondError(rec, 413)]
                /\ activeRequests' = Release(Enter(activeRequests))
                /\ UNCHANGED << imageCache, launchPc >>
           ELSE BeginGenerate(r, rec)
    /\ UNCHANGED << now, browser, launched, alive, shutdown, clearedEntries >>
    /\ events' = events + 1
    /\ UNCHANGED keyVars

(***************************************************************************)
(* GET /test-image (server.js:328-426): not throttled, no validation; the  *)
(* built-in page embeds the current time.                                  *)
(***************************************************************************)
GetTestImage(r) ==
    /\ Running /\ Listening /\ NextToArrive(r)
    /\ events < MaxEvents
    /\ BeginGenerate(r, [IdleRequest EXCEPT !.path = TEST_IMAGE,
                                            !.html = testHtml(now),
                                            !.options = NoOptions])
    /\ UNCHANGED << now, browser, launched, alive, shutdown, clearedEntries >>
    /\ events' = events + 1
    /\ UNCHANGED keyVars

(***************************************************************************)
(* initBrowser (server.js:63-126) after puppeteer.launch settles.          *)
(***************************************************************************)
\* browser = await puppeteer.launch(...); return browser
BrowserLaunched(c) ==
    /\ launched' = launched + 1
    /\ browser' = launched + 1
    /\ alive' = alive \cup {launched + 1}
    /\ launchPc' = [launchPc EXCEPT ![c] = "none"]
    /\ IF c = PREWARM
       THEN UNCHANGED req
       ELSE req' = [req EXCEPT ![c].pc = "newPage"]
    /\ UNCHANGED activeRequests

\* variant of the failed retry: the launch is tried over again
LaunchFailed_TriesAgain(c) ==
    /\ launchPc' = [launchPc EXCEPT ![c] = "launch1"]
    /\ UNCHANGED << browser, launched, alive, req, activeRequests >>

\* variant of the failed retry: the result of the launch is stored before it
\* is known to be a browser, so a handle is left that is no browser
LaunchFailed_StoresHandle(c) ==
    /\ launchPc' = [launchPc EXCEPT ![c] = "none"]
    /\ launched' = launched + 1
    /\ browser' = launched + 1
    /\ IF c = PREWARM
       THEN UNCHANGED << req, activeRequests >>
       ELSE /\ req' = [req EXCEPT ![c] = RespondError([req[c] EXCEPT !.failed = TRUE], 500)]
            /\ activeRequests' = Release(activeRequests)
    /\ UNCHANGED alive

\* the retry's launch rejects: initBrowser throws to its caller, which is the
\* listen callback's catch (server.js:450) or a handler's catch and finally
LaunchFailed(c) ==
    /\ launchPc' = [launchPc EXCEPT ![c] = "none"]
    /\ IF c = PREWARM
       THEN UNCHANGED << req, activeRequests >>
       ELSE /\ req' = [req EXCEPT ![c] = RespondError([req[c] EXCEPT !.failed = TRUE], 500)]
            /\ activeRequests' = Release(activeRequests)
    /\ UNCHANGED << browser, launched, alive >>

\* server.js:103-107
LaunchSettles(c) ==
    /\ Running /\ launchPc[c] = "launch1"
    /\ \E ok \in BOOLEAN :
         IF ok THEN BrowserLaunched(c)
         ELSE /\ launchPc' = [launchPc EXCEPT ![c] = "launch2"]
              /\ UNCHANGED << browser, launched, alive, req, activeRequests >>
    /\ UNCHANGED << now, imageCache, shutdown, clearedEntries, events >>
    /\ UNCHANGED keyVars

\* server.js:121-122
RetrySettles(c) ==
    /\ Running /\ launchPc[c] = "launch2"
    /\ \E ok \in BOOLEAN : IF ok THEN BrowserLaunched(c) ELSE LaunchFailed(c)
    /\ UNCHANGED << now, imageCache, shutdown, clearedEntries, events >>
    /\ UNCHANGED keyVars

(***************************************************************************)
(* generateImageOptimized after each await (server.js:166-209).            *)
(***************************************************************************)
\* server.js:166: a rejection is thrown before the try block is entered
NewPageSettles(r) ==
    /\ Running /\ req[r].pc = "newPage"
    /\ \E ok \in BOOLEAN :
         IF ok
         THEN /\ req' = [req EXCEPT ![r].pc = "setViewport", ![r].page = "open"]
              /\ UNCHANGED activeRequests
         ELSE /\ req' = [req EXCEPT ![r] = RespondError([req[r] EXCEPT !.failed = TRUE], 500)]
              /\ activeRequests' = Release(activeRequests)
    /\ UNCHANGED << now, imageCache, browser, launched, alive, launchPc,
                    shutdown, clearedEntries, events >>
    /\ UNCHANGED keyVars

\* variant of a rejection inside the try block: no finally, the error goes
\* straight to the handler's catch
Thrown_NoFinally(rec) == [rec EXCEPT !.pc = "done", !.failed = TRUE, !.status = 500]

\* a rejection inside the try block runs the finally: page.close() is called
Thrown(rec) == [rec EXCEPT !.pc = "pageClose", !.failed = TRUE]

\* server.js:170-174
SetViewportSettles(r) ==
    /\ Running /\ req[r].pc = "setViewport"
    /\ \E ok \in BOOLEAN :
         req' = [req EXCEPT ![r] = IF ok THEN [req[r] EXCEPT !.pc = "setContent"]
                                   ELSE Thrown(req[r])]
    /\ UNCHANGED << now, imageCache, activeRequests, browser, launched, alive,
                    launchPc,
                    shutdown, clearedEntries, events >>
    /\ UNCHANGED keyVars

\* server.js:177-180: rejects on a load error or after finalOptions.timeout
SetContentSettles(r) ==
    /\ Running /\ req[r].pc = "setContent"
    /\ \E ok \in BOOLEAN :
         req' = [req EXCEPT ![r] = IF ok THEN [req[r] EXCEPT !.pc = "screenshot"]
                                   ELSE Thrown(req[r])]
    /\ UNCHANGED << now, imageCache, activeRequests, browser, launched, alive,
                    launchPc,
                    shutdown, clearedEntries, events >>
    /\ UNCHANGED keyVars

\* The byte contents a screenshot may have.  The program stores, returns and
\* never inspects them, so a content no cache entry or response holds is
\* represented by one name: the least of those not held anywhere.
HeldBuffers ==
    ({imageCache[k].buffer : k \in DOMAIN imageCache}
        \cup {req[q].buffer : q \in Requests}) \ {NoBuffer}

ScreenshotBuffers ==
    LET unheld == Buffers \ HeldBuffers
    IN  HeldBuffers \cup {b \in unheld : \A c \in unheld : b <= c}

\* server.js:192-207: the bytes are stored, then the finally calls page.close()
ScreenshotSettles(r) ==
    /\ Running /\ req[r].pc = "screenshot"
    /\ \/ \E imageBuffer \in ScreenshotBuffers :
            /\ imageCache' = CacheSet(imageCache, req[r].cacheKey,
                                      [buffer |-> imageBuffer, timestamp |-> now])
            /\ req' = [req EXCEPT ![r].pc = "pageClose", ![r].buffer = imageBuffer,
                                  ![r].ts = now]
       \/ /\ req' = [req EXCEPT ![r] = Thrown(req[r])]
          /\ UNCHANGED imageCache
    /\ UNCHANGED << now, activeRequests, browser, launched, alive, launchPc,
                    shutdown, clearedEntries, events >>
    /\ UNCHANGED keyVars

\* server.js:207, then the handler's continuation or catch, and its finally
PageCloseSettles(r) ==
    /\ Running /\ req[r].pc = "pageClose"
    /\ \E ok \in BOOLEAN :
         req' = [req EXCEPT ![r] =
                   IF ok /\ ~req[r].failed
                   THEN Respond200([req[r] EXCEPT !.page = "closed"], imageCache)
                   ELSE RespondError([req[r] EXCEPT !.page = IF ok THEN "closed" ELSE "open",
                                                    !.failed = TRUE], 500)]
    /\ activeRequests' = Release(activeRequests)
    /\ UNCHANGED << now, imageCache, browser, launched, alive, launchPc,
                    shutdown, clearedEntries, events >>
    /\ UNCHANGED keyVars

(***************************************************************************)
(* POST /cache-clear (server.js:237-245).                                  *)
(***************************************************************************)
CacheClear ==
    /\ Running /\ Listening
    /\ events < MaxEvents
    /\ clearedEntries' = Cardinality(DOMAIN imageCache)
    /\ imageCache' = ClearAll(imageCache)
    /\ UNCHANGED << now, activeRequests, browser, launched, alive, launchPc, req,
                    shutdown >>
    /\ events' = events + 1
    /\ UNCHANGED keyVars

(***************************************************************************)
(* cleanupCache (server.js:134-141), run by setInterval (server.js:144).   *)
(***************************************************************************)
cleanupCache ==
    /\ Running
    /\ events < MaxEvents
    /\ imageCache' = Swept(imageCache, now)
    /\ UNCHANGED << now, activeRequests, browser, launched, alive, launchPc, req,
                    shutdown, clearedEntries >>
    /\ events' = events + 1
    /\ UNCHANGED keyVars

\* the passage of time
Tick ==
    /\ Running
    /\ events < MaxEvents
    /\ now' = now + 1
    /\ UNCHANGED << imageCache, activeRequests, browser, launched, alive, launchPc,
                    req, shutdown, clearedEntries >>
    /\ events' = events + 1
    /\ UNCHANGED keyVars

(***************************************************************************)
(* Shutdown (server.js:462-488).  The two handlers have the same body.     *)
(* server.close stops the server from accepting connections and calls      *)
(* back once every connection has ended.                                   *)
(***************************************************************************)
Signal(sig) ==
    /\ shutdown = "none"
    /\ events < MaxEvents
    /\ sig \in {"SIGTERM", "SIGINT"}
    /\ shutdown' = "closing"
    /\ UNCHANGED << now, imageCache, activeRequests, browser, launched, alive,
                    launchPc, req, clearedEntries >>
    /\ events' = events + 1
    /\ UNCHANGED keyVars

\* the callback of server.close up to its await of browser.close(), or, with
\* no browser, to process.exit.  A handle may be healthy or broken: the close
\* of a broken one rejects, or never settles.
\* server.close calls back when every connection has ended, which is not when
\* every handler has finished: the connection of a request whose handler is
\* still awaiting the browser ends when its client goes away, or when the
\* socket has been idle for server.timeout (server.js:457), and nothing
\* cancels the handler.  Whether the connections of the handlers in progress
\* have ended is the environment's choice, made here.
ServerClosed ==
    /\ shutdown = "closing"
    /\ imageCache' = ClearAll(imageCache)
    /\ IF browser = NoBrowser
       THEN shutdown' = "exited"
       ELSE shutdown' \in {"browserClose", "browserCloseHangs"}
    /\ UNCHANGED << now, activeRequests, browser, launched, alive, launchPc, req,
                    clearedEntries, events >>
    /\ UNCHANGED keyVars

\* browser.close() settles: process.exit(0) after it resolves; a rejection
\* leaves the async callback as an unhandled rejection, which ends the
\* process without process.exit being called
BrowserCloseSettles ==
    /\ shutdown = "browserClose"
    /\ \E ok \in BOOLEAN :
         IF ok
         THEN shutdown' = "exited" /\ alive' = alive \ {browser}
         ELSE shutdown' = "crashed" /\ UNCHANGED alive
    /\ UNCHANGED << now, imageCache, activeRequests, browser, launched, launchPc,
                    req, clearedEntries, events >>
    /\ UNCHANGED keyVars

Next ==
    \/ \E r \in Requests, body \in Bodies : PostHtmlToImage(r, body)
    \/ \E r \in Requests : GetTestImage(r)
    \/ \E c \in Callers : LaunchSettles(c)
    \/ \E c \in Callers : RetrySettles(c)
    \/ \E r \in Requests : NewPageSettles(r)
    \/ \E r \in Requests : SetViewportSettles(r)
    \/ \E r \in Requests : SetContentSettles(r)
    \/ \E r \in Requests : ScreenshotSettles(r)
    \/ \E r \in Requests : PageCloseSettles(r)
    \/ CacheClear
    \/ cleanupCache
    \/ Tick
    \/ \E sig \in {"SIGTERM", "SIGINT"} : Signal(sig)
    \/ ServerClosed
    \/ BrowserCloseSettles

Spec == Init /\ [][Next]_vars

(***************************************************************************)
(* Fairness: I/O that has been started settles, and a callback that is     *)
(* ready runs.  Nothing obliges clients, the clock or the operator to act, *)
(* and a browser.close() that hangs has no settling step at all.           *)
(***************************************************************************)
Fairness ==
    /\ \A c \in Callers : WF_vars(LaunchSettles(c)) /\ WF_vars(RetrySettles(c))
    /\ \A r \in Requests :
         /\ WF_vars(NewPageSettles(r))
         /\ WF_vars(SetViewportSettles(r))
         /\ WF_vars(SetContentSettles(r))
         /\ WF_vars(ScreenshotSettles(r))
         /\ WF_vars(PageCloseSettles(r))
    /\ WF_vars(ServerClosed)
    /\ WF_vars(BrowserCloseSettles)

FairSpec == Init /\ [][Next]_vars /\ Fairness

(***************************************************************************)
(* generateCacheKey as a function of its arguments: two calls with the     *)
(* same html and two options objects.                                      *)
(***************************************************************************)
KeyHtmls == {NoHtml, SmallHtml, [text |-> "<p>y</p>", length |-> 8]}
OptionFields == {"width", "height"}
OptionValues == {600, 800}
OptionMembers == {<< f, v >> : f \in OptionFields, v \in OptionValues}

\* the objects with at most two members, in every insertion order
OptionObjects ==
    {<< >>} \cup {<< m >> : m \in OptionMembers}
            \cup {<< p[1], p[2] >> :
                     p \in {q \in OptionMembers \X OptionMembers : q[1][1] # q[2][1]}}

KeyInit ==
    /\ ServerInit
    /\ keyArgs \in [html : KeyHtmls, a : OptionObjects, b : OptionObjects]
    /\ keys = << >>

ComputeKeys ==
    /\ keys = << >>
    /\ keys' = << generateCacheKey(keyArgs.html, keyArgs.a),
                  generateCacheKey(keyArgs.html, keyArgs.b) >>
    /\ UNCHANGED << serverVars, keyArgs >>

KeyNext == ComputeKeys

KeySpec == KeyInit /\ [][KeyNext]_vars

(***************************************************************************)
(* Vocabulary of the properties.                                           *)
(***************************************************************************)
\* the step in which request r is received
Arrived(r) == req[r].pc = "idle" /\ req'[r].pc # "idle"

\* r was received by this step and its handler called generateImageOptimized
Looked(r) == Arrived(r) /\ req'[r].status \notin {400, 413, 429}

\* r was received by this step and answered from the cache in the same turn
ServedFromCache(r) == Arrived(r) /\ req'[r].status = 200

\* r was received by this step, missed the cache and went on to the browser
WentToBrowser(r) ==
    Arrived(r) /\ req'[r].lookup # "hit" /\ req'[r].pc \in {"initBrowser", "newPage"}

HandlersInProgress == {r \in Requests : InHandler(r)}

HtmlToImageInFlight ==
    {r \in Requests : InHandler(r) /\ req[r].path = HTML_TO_IMAGE}

AllFinished == \A r \in Requests : req[r].pc = "done"

\* the two options objects hold the same fields with the same values
SameMembers(a, b) == {a[i] : i \in DOMAIN a} = {b[i] : i \in DOMAIN b}

(***************************************************************************)
(* C1: activeRequests is never negative and counts the handlers in         *)
(* progress, so every increment is matched by exactly one decrement and    *)
(* the counter is back at 0 once every request received has finished,      *)
(* whatever their outcomes (200, 400, 413, 500).                           *)
(***************************************************************************)
C1_CounterBalanced ==
    /\ activeRequests >= 0
    /\ activeRequests = Cardinality(HandlersInProgress)
    /\ (HandlersInProgress = {}) => activeRequests = 0

C1_Witness ==
    /\ AllFinished
    /\ activeRequests = 0
    /\ \E r \in Requests : req[r].path = TEST_IMAGE /\ req[r].status = 500
    /\ \E r \in Requests : req[r].path = HTML_TO_IMAGE /\ req[r].status = 200
    /\ \E r \in Requests : req[r].path = HTML_TO_IMAGE /\ req[r].status \in {400, 413}

(***************************************************************************)
(* C2: a /html-to-image request is rejected with 429 exactly when          *)
(* MAX_CONCURRENT /html-to-image requests are in flight: the next one      *)
(* after a full house is rejected, and as soon as fewer than               *)
(* MAX_CONCURRENT are in flight the next one is admitted.                  *)
(***************************************************************************)
C2_AdmittedBelowCeiling ==
    [][\A r \in Requests :
         (Arrived(r) /\ req'[r].path = HTML_TO_IMAGE)
            => (req'[r].status = 429
                  <=> Cardinality(HtmlToImageInFlight) >= MAX_CONCURRENT)]_vars

(***************************************************************************)
(* C3: a /html-to-image request whose key has an unexpired cache entry is  *)
(* never rejected with 429, whatever activeRequests is.                    *)
(***************************************************************************)
C3_CachedNeverThrottled ==
    [][\A r \in Requests :
         LET key == generateCacheKey(req'[r].html, req'[r].options)
         IN  (/\ Arrived(r) /\ req'[r].path = HTML_TO_IMAGE
              /\ ~Falsy(req'[r].html) /\ req'[r].html.length <= HTML_LIMIT
              /\ key \in DOMAIN imageCache
              /\ now - imageCache[key].timestamp < CACHE_TTL)
                => req'[r].status # 429]_vars

(***************************************************************************)
(* C4: every buffer served as a cache hit comes from an entry of age at    *)
(* most CACHE_TTL, and a lookup that finds an entry older than CACHE_TTL   *)
(* does not serve it and removes it, whether or not cleanupCache has run.  *)
(***************************************************************************)
C4_NoStaleHit ==
    [][\A r \in Requests :
         LET key == req'[r].cacheKey
         IN  /\ ServedFromCache(r)
                  => /\ key \in DOMAIN imageCache
                     /\ now - imageCache[key].timestamp <= CACHE_TTL
                     /\ req'[r].buffer = imageCache[key].buffer
             /\ (/\ Looked(r) /\ key \in DOMAIN imageCache
                 /\ now - imageCache[key].timestamp > CACHE_TTL)
                  => /\ ~ServedFromCache(r)
                     /\ key \notin DOMAIN imageCache']_vars

C4_Witness ==
    \E r \in Requests :
        /\ req[r].lookup = "expired"
        /\ InHandler(r)
        /\ req[r].cacheKey \notin DOMAIN imageCache

(***************************************************************************)
(* C5 as stated: once a call for (html, options) has completed             *)
(* successfully, a later call for the same pair made before the entry's    *)
(* TTL expires is served from the cache with the bytes of the first call.  *)
(***************************************************************************)
C5_SecondCallHits ==
    [][\A r, first \in Requests :
         (/\ Looked(r) /\ first # r
          /\ req[first].pc = "done" /\ req[first].status = 200
          /\ req[first].cacheKey = req'[r].cacheKey
          /\ now - req[first].ts < CACHE_TTL)
            => /\ ServedFromCache(r)
               /\ req'[r].buffer = req[first].buffer]_vars

(***************************************************************************)
(* C5 as amended: ... provided the entry the first call stored or served   *)
(* is still the cache's entry for that key (no /cache-clear has removed it *)
(* and no other render of the same input has replaced it), the later call  *)
(* is served from the cache with the bytes of the first call, and opens no *)
(* page.                                                                   *)
(***************************************************************************)
C5_SecondCallHitsWhileEntryKept ==
    [][\A r, first \in Requests :
         LET key == req'[r].cacheKey
         IN  (/\ Looked(r) /\ first # r
              /\ req[first].pc = "done" /\ req[first].status = 200
              /\ req[first].cacheKey = key
              /\ now - req[first].ts < CACHE_TTL
              /\ key \in DOMAIN imageCache
              /\ imageCache[key] = [buffer |-> req[first].buffer,
                                    timestamp |-> req[first].ts])
                => /\ ServedFromCache(r)
                   /\ req'[r].buffer = req[first].buffer
                   /\ req'[r].page = "none"]_vars

C5_Witness ==
    \E r, first \in Requests :
        /\ first < r
        /\ req[first].pc = "done" /\ req[first].status = 200
        /\ req[first].lookup = "miss" /\ req[first].page = "closed"
        /\ req[r].pc = "done" /\ req[r].status = 200 /\ req[r].lookup = "hit"
        /\ req[r].cacheKey = req[first].cacheKey
        /\ req[r].buffer = req[first].buffer
        /\ req[r].page = "none"

(***************************************************************************)
(* C6: two options objects with the same fields and values, listed in any  *)
(* order, give the same cache key for the same html.                       *)
(***************************************************************************)
C6_KeyIgnoresFieldOrder ==
    (keys # << >> /\ SameMembers(keyArgs.a, keyArgs.b)) => keys[1] = keys[2]

(***************************************************************************)
(* C7: /cache-clear leaves the cache empty and reports the number of       *)
(* entries it held; an entry enters the cache only when a render in        *)
(* flight stores its screenshot; and a request whose key is not in the     *)
(* cache misses and goes on to the browser.  So the first render of an     *)
(* input after a clear, with none in flight, invokes the browser again.    *)
(***************************************************************************)
C7_ClearForcesRender ==
    [][/\ CacheClear => /\ DOMAIN imageCache' = {}
                        /\ clearedEntries' = Cardinality(DOMAIN imageCache)
       /\ \A key \in DOMAIN imageCache' \ DOMAIN imageCache :
            \E r \in Requests : req[r].pc = "screenshot" /\ req[r].cacheKey = key
       /\ \A r \in Requests :
            (Looked(r) /\ req'[r].cacheKey \notin DOMAIN imageCache)
               => WentToBrowser(r)]_vars

C7_Witness ==
    \E r, first \in Requests :
        /\ first < r
        /\ req[first].pc = "done" /\ req[first].status = 200
        /\ req[first].lookup = "miss"
        /\ now - req[first].ts < CACHE_TTL
        /\ clearedEntries >= 1
        /\ req[r].cacheKey = req[first].cacheKey
        /\ req[r].lookup = "miss" /\ req[r].pc = "newPage"

(***************************************************************************)
(* C8: a /html-to-image request whose html is longer than 10 MB is         *)
(* answered with 413, never with 429, whatever the load.                   *)
(***************************************************************************)
C8_OversizedGets413 ==
    \A r \in Requests :
        (/\ req[r].pc = "done" /\ req[r].path = HTML_TO_IMAGE
         /\ req[r].html.length > HTML_LIMIT)
           => req[r].status = 413

(***************************************************************************)
(* C9: at most one launched browser is alive in the process.               *)
(***************************************************************************)
C9_SingleBrowser == Cardinality(alive) <= 1

(***************************************************************************)
(* C10: after a termination signal the process eventually ends.            *)
(***************************************************************************)
C10_ShutdownCompletes ==
    (shutdown # "none") ~> (shutdown \in {"exited", "crashed"})

(***************************************************************************)
(* C11: a call of initBrowser that finds no handle launches with the full  *)
(* flag set, retries once with the minimal set if that fails, and launches *)
(* no third time: if the retry fails too the caller gets the error (a      *)
(* handler answers 500), the handle is left as it was, and a request       *)
(* received while the handle is absent starts a launch of its own.         *)
(***************************************************************************)
C11_OneRetryThenError ==
    [][\A c \in Callers :
         /\ (launchPc[c] = "none" /\ launchPc'[c] # "none")
               => /\ launchPc'[c] = "launch1"
                  /\ browser = NoBrowser
                  /\ c \in Requests /\ Arrived(c)
         /\ (launchPc[c] = "launch1" /\ launchPc'[c] # "launch1")
               => \/ launchPc'[c] = "launch2" /\ launched' = launched
                                              /\ browser' = browser
                  \/ launchPc'[c] = "none" /\ launched' = launched + 1
                                           /\ browser' = launched'
         /\ (launchPc[c] = "launch2" /\ launchPc'[c] # "launch2")
               => /\ launchPc'[c] = "none"
                  /\ \/ launched' = launched + 1 /\ browser' = launched'
                     \/ /\ launched' = launched /\ browser' = browser
                        /\ c \in Requests
                              => req'[c].pc = "done" /\ req'[c].status = 500
         /\ (c \in Requests /\ Looked(c) /\ ~ServedFromCache(c)
                /\ browser = NoBrowser)
               => launchPc'[c] = "launch1"]_vars

\* two requests failed for want of a browser, the handle is absent, and a
\* request admitted after one of them had finished is launching
C11_Witness ==
    /\ browser = NoBrowser /\ launched = 0
    /\ \A r \in {1, 2} : /\ req[r].pc = "done" /\ req[r].status = 500
                          /\ req[r].path = HTML_TO_IMAGE /\ req[r].page = "none"
    /\ req[3].path = HTML_TO_IMAGE /\ launchPc[3] = "launch1"

(***************************************************************************)
(* C12: every page generateImageOptimized opens has page.close() called    *)
(* on it exactly once before the call returns, after a success as after a  *)
(* failure of setViewport, setContent or screenshot: a handler holding a   *)
(* page finishes only by way of its await of page.close(), and a finished  *)
(* request whose page is not closed is one whose page.close() rejected.    *)
(***************************************************************************)
C12_PageClosedOnEveryPath ==
    [][\A r \in Requests :
         LET pc == req[r].pc
             pc2 == req'[r].pc
             inTry == {"setViewport", "setContent", "screenshot"}
             after == [p \in inTry |-> IF p = "setViewport" THEN "setContent"
                                       ELSE IF p = "setContent" THEN "screenshot"
                                       ELSE "pageClose"]
         IN  /\ (req[r].page # "open" /\ req'[r].page = "open")
                   => pc = "newPage" /\ pc2 = "setViewport"
             /\ (pc \in inTry /\ pc2 # pc)
                   => pc2 \in {after[pc], "pageClose"} /\ req'[r].page = "open"
             /\ (pc2 = "pageClose" /\ pc # "pageClose")
                   => pc \in inTry /\ req[r].page = "open"
             /\ (pc = "pageClose" /\ pc2 # pc)
                   => /\ pc2 = "done"
                      /\ req'[r].page \in {"closed", "open"}
                      /\ req'[r].page = "open" => req'[r].status = 500
             /\ (pc2 = "done" /\ pc # "done" /\ req[r].page = "open")
                   => pc = "pageClose"]_vars

\* every request has finished: one rendered, one failed inside the try block,
\* and the page of each was closed
C12_Witness ==
    /\ AllFinished
    /\ \E r \in Requests : req[r].status = 200 /\ req[r].lookup = "miss"
                              /\ req[r].page = "closed"
    /\ \E r \in Requests : req[r].status = 500 /\ req[r].failed
                              /\ req[r].page = "closed"
    /\ \A r \in Requests : req[r].page # "open"

(***************************************************************************)
(* C13: the calls of generateImageOptimized in progress, from both routes  *)
(* together, never number more than MAX_CONCURRENT, and activeRequests is  *)
(* the number of handlers in progress and never exceeds MAX_CONCURRENT.    *)
(***************************************************************************)
C13_RendersBounded ==
    /\ Cardinality(HandlersInProgress) <= MAX_CONCURRENT
    /\ activeRequests = Cardinality(HandlersInProgress)
    /\ activeRequests <= MAX_CONCURRENT

(***************************************************************************)
(* C14: requests with the same cache key are not coalesced.  A request     *)
(* received while another with its key is in progress and has stored       *)
(* nothing yet, the key being absent from the cache, misses and renders;   *)
(* a rendering request answered 200 sends the bytes of its own screenshot;  *)
(* and                                                                     *)
(* whenever an entry is written it is, buffer and timestamp, the entry of  *)
(* the one request whose screenshot settled, all others left as they were. *)
(***************************************************************************)
C14_NoCoalescing ==
    [][/\ \A r \in Requests :
            Looked(r) =>
              \A other \in Requests \ {r} :
                 (/\ InHandler(other)
                  /\ req[other].cacheKey = req'[r].cacheKey
                  /\ req[other].buffer = NoBuffer
                  /\ req'[r].cacheKey \notin DOMAIN imageCache)
                    => /\ WentToBrowser(r) /\ req'[r].lookup = "miss"
                       /\ req'[other] = req[other]
       /\ \A r \in Requests :
            (InHandler(r) /\ req'[r].status # 500
                /\ req'[r].buffer # req[r].buffer)
               => req[r].pc = "screenshot" /\ req'[r].pc = "pageClose"
       /\ imageCache' # imageCache =>
            \A key \in DOMAIN imageCache' :
               \/ key \in DOMAIN imageCache /\ imageCache'[key] = imageCache[key]
               \/ \E r \in Requests :
                     /\ req[r].pc = "screenshot" /\ req'[r].pc = "pageClose"
                     /\ req[r].cacheKey = key
                     /\ imageCache'[key] = [buffer |-> req'[r].buffer,
                                            timestamp |-> req'[r].ts]
                     /\ req'[r].ts = now]_vars

\* two requests with one key both missed and both rendered, each on a page
\* of its own, to different bytes at different times; the entry is the
\* second's
C14_Witness ==
    \E r, other \in Requests :
        /\ r # other /\ req[r].cacheKey = req[other].cacheKey
        /\ \A q \in {r, other} : /\ req[q].pc = "done" /\ req[q].status = 200
                                  /\ req[q].lookup = "miss"
                                  /\ req[q].page = "closed"
        /\ req[r].buffer # req[other].buffer
        /\ req[r].ts > req[other].ts
        /\ req[r].cacheKey \in DOMAIN imageCache
        /\ imageCache[req[r].cacheKey] = [buffer |-> req[r].buffer,
                                          timestamp |-> req[r].ts]

(***************************************************************************)
(* C15: once a handle is stored, a call of initBrowser made from then on   *)
(* launches nothing and goes on with the stored handle, and the stored     *)
(* handle is not replaced by another while the process runs.               *)
(***************************************************************************)
C15_HandleKept ==
    [][/\ \A r \in Requests :
            (Looked(r) /\ ~ServedFromCache(r) /\ browser # NoBrowser)
               => launchPc'[r] = "none" /\ req'[r].pc = "newPage"
       /\ browser # NoBrowser => browser' = browser]_vars

(***************************************************************************)
(* C16: the lifecycle only moves forward, and after a termination signal   *)
(* the steps come in this order: no request is received any more and the   *)
(* handlers in progress finish; then the cache is cleared; then the handle *)
(* is closed if there is one; then the process exits.                      *)
(***************************************************************************)
LifecycleRank(phase) ==
    IF phase = "none" THEN 0               \* Starting, Ready
    ELSE IF phase = "closing" THEN 1       \* Draining
    ELSE IF phase \in {"browserClose", "browserCloseHangs"} THEN 2
    ELSE 3                                 \* Stopped

C16_OrderedShutdown ==
    [][/\ LifecycleRank(shutdown') >= LifecycleRank(shutdown)
       /\ shutdown # "none" => \A r \in Requests : ~Arrived(r)
       /\ (shutdown = "closing" /\ shutdown' # "closing")
             => /\ \A r \in Requests : ~InHandler(r)
                /\ imageCache' = EmptyCache
       /\ (shutdown # "exited" /\ shutdown' = "exited")
             => /\ imageCache' = EmptyCache
                /\ browser # NoBrowser => browser \notin alive']_vars

(***************************************************************************)
(* C17: when both launches of the startup pre-warm fail, the server goes   *)
(* on as it was, listening and with no handle; a request that then needs   *)
(* the browser launches it itself, and goes on to open its page with the   *)
(* new handle if its launch succeeds.                                      *)
(***************************************************************************)
C17_PrewarmFailureNotFatal ==
    [][/\ (launchPc[PREWARM] = "launch2" /\ launchPc'[PREWARM] = "none"
             /\ alive' = alive)
             => /\ shutdown' = shutdown /\ browser' = browser
                /\ req' = req /\ activeRequests' = activeRequests
                /\ imageCache' = imageCache
       /\ \A r \in Requests :
            /\ (/\ Looked(r) /\ ~ServedFromCache(r)
                 /\ launchPc[PREWARM] = "none" /\ browser = NoBrowser)
                  => launchPc'[r] = "launch1" /\ req'[r].pc = "initBrowser"
            /\ (launchPc[r] # "none" /\ launchPc'[r] = "none" /\ alive' # alive)
                  => /\ browser' \in alive' \ alive
                     /\ req'[r].pc = "newPage"]_vars

\* the pre-warm has failed, the server is listening without a handle, and a
\* request is launching the browser
C17_Witness ==
    /\ launchPc[PREWARM] = "none" /\ browser = NoBrowser /\ launched = 0
    /\ shutdown = "none"
    /\ \E r \in Requests : launchPc[r] = "launch1" /\ req[r].pc = "initBrowser"

(***************************************************************************)
(* C18: no step of a request handler changes, clears or closes a stored    *)
(* handle, and a browser is closed only by the shutdown path.              *)
(***************************************************************************)
C18_HandlersLeaveHandle ==
    [][/\ (req' # req /\ browser # NoBrowser) => browser' = browser
       /\ browser # NoBrowser => browser' # NoBrowser
       /\ alive \ alive' # {} => shutdown = "browserClose" /\ req' = req]_vars

(***************************************************************************)
(* C19: a request answered with 500 has added or replaced no cache entry.  *)
(***************************************************************************)
C19_FailedRenderStoresNothing ==
    [][\A r \in Requests :
         (InHandler(r) /\ req'[r].pc = "done" /\ req'[r].status = 500)
            => /\ req[r].buffer = NoBuffer
               /\ \A key \in DOMAIN imageCache' :
                    key \in DOMAIN imageCache
                       /\ imageCache'[key] = imageCache[key]]_vars

(***************************************************************************)
(* C20: a 200 response of /html-to-image carries X-Cache-Status HIT        *)
(* exactly when its bytes came from the cache, MISS when the request       *)
(* rendered them.                                                          *)
(***************************************************************************)
C20_HeaderTellsSource ==
    \A r \in Requests :
        (req[r].pc = "done" /\ req[r].path = HTML_TO_IMAGE /\ req[r].status = 200)
           => /\ req[r].xcache = "HIT" <=> req[r].lookup = "hit"
              /\ req[r].xcache = "MISS" <=> req[r].lookup # "hit"

=============================================================================
